---- MODULE Spec2Model ----
(***************************************************************************)
(* Model of src/app.py: the Flask handler process() of the passport-sheet  *)
(* maker.  One request is read, its background is removed by remove.bg,    *)
(* the cleaned image is uploaded to and enhanced by Cloudinary, the result *)
(* is resized and bordered into one tile, and the tile is pasted on an A4  *)
(* canvas by a row-major loop; the canvas is returned as a PDF.            *)
(*                                                                         *)
(* The layout settings are locals of process() that the source sets to     *)
(* fixed numbers (lines 42-49).  InitDefault starts from exactly these     *)
(* numbers.  Init draws the same nine locals from small sets, so that the  *)
(* loop of lines 145-157 is exercised as an algorithm over all its free    *)
(* variables.                                                              *)
(***************************************************************************)
EXTENDS Integers, Sequences, FiniteSets

VARIABLES
    passport_width, passport_height, border, spacing,
    margin_x, margin_y, horizontal_gap, a4_w, a4_h,   \* layout settings
    request,        \* the incoming request: image part and "copies" form field
    pc,             \* position of the handler
    copies,         \* int(request.form.get("copies", 6))
    removal,        \* the answer of remove.bg to this request
    img_mode,       \* mode of the image currently held (img / processed_img)
    passport_img,   \* size of the prepared tile
    a4,             \* the canvas: the paste positions, in paste order
    x, y, paste_w, paste_h, placed,
    i,              \* iterations of "for _ in range(copies)" completed
    response,       \* what the handler returned
    stages,         \* pipeline stages this request has entered, in order
    served,         \* requests this process has accepted so far
    firstRun        \* outcome of the first composition this process finished

settings == <<passport_width, passport_height, border, spacing,
              margin_x, margin_y, horizontal_gap, a4_w, a4_h>>

locals == <<copies, removal, img_mode, passport_img, a4, x, y,
            paste_w, paste_h, placed, i>>

vars == <<settings, request, pc, locals, response, stages, served, firstRun>>

----------------------------------------------------------------------------
(* Bounds of the model.                                                    *)

MaxTile == 2
MaxBorder == 1
MaxMargin == 1
MaxGap == 1
MaxPage == 6
MaxCopies == 5
MaxFormCopies == 44
MaxRequests == 2

(* Program constants.                                                      *)

DefaultPassportWidth == 384
DefaultPassportHeight == 472
DefaultBorder == 2
DefaultSpacing == 25
DefaultMarginX == 10
DefaultMarginY == 15
DefaultHorizontalGap == 20
DefaultA4W == 2480
DefaultA4H == 3508
DefaultCopies == 6

----------------------------------------------------------------------------
(* Values exchanged with the collaborators.                                *)

Modes == {"RGBA", "LA", "RGB", "P"}
Codes == {"auth_failed", "unknown_foreground"}

\* Shapes of the body of a non-200 answer of remove.bg, as far as lines 65-71
\* tell them apart.
Shapes == {"unparseable", "not_object", "no_errors", "empty_errors",
           "first_not_object", "first_no_code", "first_with_code"}

NoRemoval == [status |-> 0, shape |-> "none", code |-> "none"]

\* Answers of remove.bg: 200 with image bytes, or an error status with a body.
RemovalResponses ==
    {[status |-> 200, shape |-> "image", code |-> "none"]}
    \cup {[status |-> 402, shape |-> s, code |-> "none"] :
        s \in Shapes \ {"first_with_code"}}
    \cup {[status |-> 402, shape |-> "first_with_code", code |-> c] : c \in Codes}

\* What Image.open makes of downloaded bytes: an image of some mode, or an error.
Decoded == Modes \cup {"undecodable"}

\* The "copies" form field: absent, not a number, or the decimal text of n.
Forms(n) == {[kind |-> "absent", value |-> 0], [kind |-> "text", value |-> 0]}
            \cup {[kind |-> "int", value |-> v] : v \in -1..n}

Requests(n) == {[hasImage |-> FALSE, form |-> [kind |-> "absent", value |-> 0]]}
               \cup {[hasImage |-> TRUE, form |-> f] : f \in Forms(n)}

NoResponse == [status |-> 0, error |-> "none", pdf |-> FALSE]

NoRun == [valid |-> FALSE, copies |-> 0, a4 |-> <<>>, placed |-> 0]

StageOrder == <<"input", "removal", "upload", "enhance", "tile", "compose", "export">>

----------------------------------------------------------------------------
(* Pure helpers.                                                           *)

\* int(request.form.get("copies", 6)): the default, the number, or ValueError.
CopiesRaises(form) == form.kind = "text"
CopiesOf(form) == IF form.kind = "absent" THEN DefaultCopies ELSE form.value

\* RemovalError with the code read by subscript: a first entry without "code"
\* raises KeyError and ends in the generic 500.
RemovalError_CodeBySubscript(r) ==
    IF r.shape = "first_with_code"
    THEN [status |-> 410, error |-> r.code, pdf |-> FALSE]
    ELSE [status |-> 500, error |-> "bg_removal_failed", pdf |-> FALSE]

\* Lines 63-73: the (status, error) returned for a non-200 answer.  json() raises
\* on an unparseable body; .get raises on a body or a first entry that is no
\* object; every exception is caught and falls through to the generic 500.
RemovalError(r) ==
    IF r.shape \in {"unparseable", "not_object"}
    THEN [status |-> 500, error |-> "bg_removal_failed", pdf |-> FALSE]
    ELSE IF r.shape \in {"no_errors", "empty_errors"}
    THEN [status |-> 500, error |-> "bg_removal_failed", pdf |-> FALSE]
    ELSE IF r.shape = "first_not_object"
    THEN [status |-> 500, error |-> "bg_removal_failed", pdf |-> FALSE]
    ELSE [status |-> 410,
          error |-> IF r.shape = "first_with_code" THEN r.code ELSE "unknown_error",
          pdf |-> FALSE]

\* Lines 79-85 and 123-129: both branches end in an opaque RGB image.
Flatten(mode) == IF mode \in {"RGBA", "LA"} THEN "RGB" ELSE "RGB"

\* Lines 146-148: the wrap check and what it does to the cursor.
WrapNeeded(cx) == cx + paste_w > a4_w
WrapX(cx) == IF WrapNeeded(cx) THEN margin_x ELSE cx

\* WrapY stepping down by the spacing alone, and WrapY not stepping down at all.
WrapY_SpacingOnly(cx, cy) == IF WrapNeeded(cx) THEN cy + spacing ELSE cy
WrapY_SameRow(cx, cy) == cy

WrapY(cx, cy) == IF WrapNeeded(cx) THEN cy + paste_h + spacing ELSE cy

\* PageFull with >= for >, and PageFull made on the y from before the wrap.
PageFull_OffByOne(cx, cy) == WrapY(cx, cy) + paste_h >= a4_h
PageFull_BeforeWrap(cx, cy) == cy + paste_h > a4_h

\* Line 150: the overflow check, made on the y the wrap check left.
PageFull(cx, cy) == WrapY(cx, cy) + paste_h > a4_h

\* AdvanceX without the gap.
AdvanceX_NoGap(cx) == cx + paste_w

\* Line 156.
AdvanceX(cx) == cx + paste_w + horizontal_gap

----------------------------------------------------------------------------
(* Initial states.                                                         *)

InitRequest(reqs) ==
    /\ request \in reqs
    /\ pc = "input"
    /\ copies = 0
    /\ removal = NoRemoval
    /\ img_mode = "none"
    /\ passport_img = <<0, 0>>
    /\ a4 = <<>>
    /\ x = 0 /\ y = 0 /\ paste_w = 0 /\ paste_h = 0 /\ placed = 0 /\ i = 0
    /\ response = NoResponse
    /\ stages = <<>>
    /\ served = 1
    /\ firstRun = NoRun

\* The loop as an algorithm: the settings range over small sets.  The tile sides
\* start at 1: the resize of line 132 accepts no side below 1.
Init ==
    /\ passport_width \in {1, MaxTile}
    /\ passport_height \in {1, MaxTile}
    /\ border \in {0, MaxBorder}
    /\ spacing \in {0, MaxGap}
    /\ margin_x \in {0, MaxMargin}
    /\ margin_y \in {0, MaxMargin}
    /\ horizontal_gap \in {0, MaxGap}
    /\ a4_w \in 0..MaxPage
    /\ a4_h \in 0..MaxPage
    /\ InitRequest(Requests(MaxCopies))

\* The program as shipped: lines 42-49.
InitDefault ==
    /\ passport_width = DefaultPassportWidth
    /\ passport_height = DefaultPassportHeight
    /\ border = DefaultBorder
    /\ spacing = DefaultSpacing
    /\ margin_x = DefaultMarginX
    /\ margin_y = DefaultMarginY
    /\ horizontal_gap = DefaultHorizontalGap
    /\ a4_w = DefaultA4W
    /\ a4_h = DefaultA4H
    /\ InitRequest(Requests(MaxFormCopies))

----------------------------------------------------------------------------
(* The handler, one action per step.                                       *)

Respond(r) ==
    /\ response' = r
    /\ pc' = "done"

\* MissingImage without its return: 400 is set and the handler goes on.
MissingImage_NoReturn ==
    /\ pc = "input"
    /\ ~request.hasImage
    /\ stages' = Append(stages, "input")
    /\ response' = [status |-> 400, error |-> "No image uploaded", pdf |-> FALSE]
    /\ pc' = "removal"
    /\ UNCHANGED <<settings, request, locals, served, firstRun>>

\* Lines 33-35.
MissingImage ==
    /\ pc = "input"
    /\ ~request.hasImage
    /\ stages' = Append(stages, "input")
    /\ Respond([status |-> 400, error |-> "No image uploaded", pdf |-> FALSE])
    /\ UNCHANGED <<settings, request, locals, served, firstRun>>

\* Lines 37-51: the image is read, the settings are set, copies is parsed.
ReadInput ==
    /\ pc = "input"
    /\ request.hasImage
    /\ stages' = Append(stages, "input")
    /\ IF CopiesRaises(request.form)
       THEN /\ Respond([status |-> 500, error |-> "exception", pdf |-> FALSE])
            /\ UNCHANGED copies
       ELSE /\ copies' = CopiesOf(request.form)
            /\ pc' = "removal"
            /\ UNCHANGED response
    /\ UNCHANGED <<settings, request, removal, img_mode, passport_img, a4, x, y,
                   paste_w, paste_h, placed, i, served, firstRun>>

\* Lines 53-77.
RemoveBackground ==
    /\ pc = "removal"
    /\ stages' = Append(stages, "removal")
    /\ \E r \in RemovalResponses, m \in Decoded :
        /\ removal' = r
        /\ IF r.status # 200
           THEN /\ Respond(RemovalError(r))
                /\ UNCHANGED img_mode
           ELSE IF m = "undecodable"
           THEN /\ Respond([status |-> 500, error |-> "exception", pdf |-> FALSE])
                /\ UNCHANGED img_mode
           ELSE /\ img_mode' = m
                /\ pc' = "upload"
                /\ UNCHANGED response
    /\ UNCHANGED <<settings, request, copies, passport_img, a4, x, y,
                   paste_w, paste_h, placed, i, served, firstRun>>

\* Lines 79-101: flatten, upload, check the reference URL.
Upload ==
    /\ pc = "upload"
    /\ stages' = Append(stages, "upload")
    /\ img_mode' = Flatten(img_mode)
    /\ \E hasUrl \in BOOLEAN :
        IF ~hasUrl
        THEN Respond([status |-> 500, error |-> "Cloudinary upload failed", pdf |-> FALSE])
        ELSE /\ pc' = "enhance"
             /\ UNCHANGED response
    /\ UNCHANGED <<settings, request, copies, removal, passport_img, a4, x, y,
                   paste_w, paste_h, placed, i, served, firstRun>>

\* Lines 103-120: the enhanced image is fetched and opened.
EnhanceFetch ==
    /\ pc = "enhance"
    /\ stages' = Append(stages, "enhance")
    /\ \E m \in Decoded :
        IF m = "undecodable"
        THEN /\ Respond([status |-> 500, error |-> "exception", pdf |-> FALSE])
             /\ UNCHANGED img_mode
        ELSE /\ img_mode' = m
             /\ pc' = "tile"
             /\ UNCHANGED response
    /\ UNCHANGED <<settings, request, copies, removal, passport_img, a4, x, y,
                   paste_w, paste_h, placed, i, served, firstRun>>

\* Lines 122-134: flatten, resize, border.
TilePrepare ==
    /\ pc = "tile"
    /\ stages' = Append(stages, "tile")
    /\ img_mode' = Flatten(img_mode)
    /\ passport_img' = <<passport_width + 2 * border, passport_height + 2 * border>>
    /\ pc' = "compose"
    /\ UNCHANGED <<settings, request, copies, removal, a4, x, y,
                   paste_w, paste_h, placed, i, response, served, firstRun>>

\* ComposeInit with the cursor and the counter kept from the run before.
ComposeInit_KeepsCursor ==
    /\ pc = "compose"
    /\ stages' = Append(stages, "compose")
    /\ a4' = <<>>
    /\ paste_w' = passport_width + 2 * border
    /\ paste_h' = passport_height + 2 * border
    /\ i' = 0
    /\ pc' = "loop"
    /\ UNCHANGED <<settings, request, copies, removal, img_mode, passport_img,
                   x, y, placed, response, served, firstRun>>

\* Lines 137-141.
ComposeInit ==
    /\ pc = "compose"
    /\ stages' = Append(stages, "compose")
    /\ a4' = <<>>
    /\ x' = margin_x
    /\ y' = margin_y
    /\ paste_w' = passport_width + 2 * border
    /\ paste_h' = passport_height + 2 * border
    /\ placed' = 0
    /\ i' = 0
    /\ pc' = "loop"
    /\ UNCHANGED <<settings, request, copies, removal, img_mode, passport_img,
                   response, served, firstRun>>

\* Lines 145-157, an iteration that pastes.
PlaceCopy ==
    /\ pc = "loop"
    /\ i < copies
    /\ ~PageFull(x, y)
    /\ a4' = Append(a4, <<WrapX(x), WrapY(x, y)>>)
    /\ x' = AdvanceX(WrapX(x))
    /\ y' = WrapY(x, y)
    /\ placed' = placed + 1
    /\ i' = i + 1
    /\ UNCHANGED <<settings, request, pc, copies, removal, img_mode, passport_img,
                   paste_w, paste_h, response, stages, served, firstRun>>

\* Lines 145-152, the iteration that breaks.
EndOfPage ==
    /\ pc = "loop"
    /\ i < copies
    /\ PageFull(x, y)
    /\ x' = WrapX(x)
    /\ y' = WrapY(x, y)
    /\ pc' = "export"
    /\ UNCHANGED <<settings, request, copies, removal, img_mode, passport_img, a4,
                   paste_w, paste_h, placed, i, response, stages, served, firstRun>>

\* Line 145: range(copies) is exhausted.
LoopExit ==
    /\ pc = "loop"
    /\ ~(i < copies)
    /\ pc' = "export"
    /\ UNCHANGED <<settings, request, locals, response, stages, served, firstRun>>

\* Lines 161-172.
ExportPDF ==
    /\ pc = "export"
    /\ stages' = Append(stages, "export")
    /\ Respond([status |-> 200, error |-> "none", pdf |-> TRUE])
    /\ firstRun' = IF firstRun.valid THEN firstRun
                   ELSE [valid |-> TRUE, copies |-> copies, a4 |-> a4, placed |-> placed]
    /\ UNCHANGED <<settings, request, locals, served>>

\* Lines 29-30: the next request to the same process.
NextRequest ==
    /\ pc = "done"
    /\ served < MaxRequests
    /\ served' = served + 1
    /\ request' \in Requests(MaxFormCopies)
    /\ pc' = "input"
    /\ response' = NoResponse
    /\ stages' = <<>>
    /\ UNCHANGED <<settings, locals, firstRun>>

Next ==
    \/ MissingImage
    \/ ReadInput
    \/ RemoveBackground
    \/ Upload
    \/ EnhanceFetch
    \/ TilePrepare
    \/ ComposeInit
    \/ PlaceCopy
    \/ EndOfPage
    \/ LoopExit
    \/ ExportPDF

NextServer == Next \/ NextRequest

Spec == Init /\ [][Next]_vars

SpecServer == InitDefault /\ [][NextServer]_vars

----------------------------------------------------------------------------
(* Vocabulary of the properties.                                           *)

FootprintW == passport_width + 2 * border
FootprintH == passport_height + 2 * border

\* Tiles per row and rows per page under the flow-layout rule.
PerRow == Cardinality({k \in 0..a4_w :
              margin_x + k * (FootprintW + horizontal_gap) + FootprintW <= a4_w})
Rows == Cardinality({r \in 0..a4_h :
              margin_y + r * (FootprintH + spacing) + FootprintH <= a4_h})
Capacity == PerRow * Rows
OneTileFits == PerRow >= 1 /\ Rows >= 1

Min(a, b) == IF a <= b THEN a ELSE b

LoopFinished == pc = "export" \/ (pc = "done" /\ response.pdf)
StoppedEarly == LoopFinished /\ i < copies

IsPrefix(s, t) == Len(s) <= Len(t) /\ \A k \in 1..Len(s) : s[k] = t[k]

Overlap(p, q) ==
    /\ p[1] < q[1] + FootprintW /\ q[1] < p[1] + FootprintW
    /\ p[2] < q[2] + FootprintH /\ q[2] < p[2] + FootprintH

----------------------------------------------------------------------------
\* C1: when the loop has finished with copies >= 0 and at least one tile fits on
\* the page, the number of tiles placed is min(copies, capacity), the canvas
\* holds exactly that many tiles, and copies = 0 leaves the canvas empty.
C1_PlacedIsMinOfCopiesAndCapacity ==
    (LoopFinished /\ copies >= 0 /\ OneTileFits) =>
        /\ placed = Min(copies, Capacity)
        /\ Len(a4) = placed
        /\ (copies = 0 => a4 = <<>>)

\* A page of at least two rows of at least two tiles, filled and truncated.
C1_Witness ==
    /\ pc = "export"
    /\ PerRow >= 2 /\ Rows >= 2
    /\ copies > Capacity
    /\ placed = Capacity

C3_NoTwoTilesOverlap ==
    \A j, k \in 1..Len(a4) : j # k => ~Overlap(a4[j], a4[k])

\* Tiles that touch: two in a row without gap, and a second row without spacing.
C3_Witness ==
    /\ horizontal_gap = 0 /\ spacing = 0
    /\ Len(a4) >= 3
    /\ a4[2][2] = a4[1][2] /\ a4[2][1] = a4[1][1] + FootprintW
    /\ a4[Len(a4)][2] = a4[1][2] + FootprintH

C5_StagesInOrderAndShortCircuit ==
    /\ IsPrefix(stages, StageOrder)
    /\ (response # NoResponse => pc = "done")
    /\ (response.pdf => stages = StageOrder)
    /\ (response.status = 400 => stages = <<"input">>)
    /\ (response.status = 410 \/ response.error = "bg_removal_failed"
            => stages = <<"input", "removal">>)
    /\ (response.error = "Cloudinary upload failed"
            => stages = <<"input", "removal", "upload">>)
    /\ (response.status \in {400, 410, 500} => ~response.pdf)

\* The upload returned no URL: the request ended there, without a document.
C5_Witness ==
    /\ pc = "done"
    /\ response.error = "Cloudinary upload failed"
    /\ stages = <<"input", "removal", "upload">>
    /\ a4 = <<>>

RemovalFailed == pc = "done" /\ stages = <<"input", "removal">> /\ removal.status # 200

\* C6 as stated: 410 with the provider's code exactly when the body carries a
\* code, and the generic 500 in every other case, a first entry without code
\* included.
C6_Original ==
    RemovalFailed =>
        IF removal.shape = "first_with_code"
        THEN response.status = 410 /\ response.error = removal.code
        ELSE response.status = 500 /\ response.error = "bg_removal_failed"

\* C6 as amended: no image gives 400; a non-200 answer of the provider gives 410
\* exactly when its body is an object whose error list is non-empty and starts
\* with an object, carrying that entry's code or "unknown_error" when it has
\* none, and the generic 500 otherwise; an upload without URL gives 500.
C6_FailureOutcomes ==
    /\ (pc = "done" /\ ~request.hasImage =>
            response.status = 400 /\ response.error = "No image uploaded")
    /\ (RemovalFailed =>
            IF removal.shape = "first_with_code"
            THEN response.status = 410 /\ response.error = removal.code
            ELSE IF removal.shape = "first_no_code"
            THEN response.status = 410 /\ response.error = "unknown_error"
            ELSE response.status = 500 /\ response.error = "bg_removal_failed")
    /\ (pc = "done" /\ stages = <<"input", "removal", "upload">> =>
            response.status = 500 /\ response.error = "Cloudinary upload failed")

C6_Witness ==
    /\ RemovalFailed
    /\ removal.shape = "first_no_code"
    /\ response.status = 410
    /\ response.error = "unknown_error"

\* C7: with the shipped settings, 6 copies are one row at x = 10, 418, 826, 1234,
\* 1642, 2050 and y = 15; 40 copies are all placed, over several rows; a new row
\* starts exactly where the next right edge x + 388 would pass 2480; and the loop
\* is cut off exactly when y + 476 would pass 3508.
C7_DefaultLayoutScenarios ==
    /\ paste_w \in {0, 388} /\ paste_h \in {0, 476}
    /\ (LoopFinished /\ copies = 6 =>
            a4 = << <<10, 15>>, <<418, 15>>, <<826, 15>>,
                    <<1234, 15>>, <<1642, 15>>, <<2050, 15>> >>)
    /\ (LoopFinished /\ copies = 40 =>
            /\ placed = 40 /\ Len(a4) = 40
            /\ Cardinality({a4[k][2] : k \in 1..Len(a4)}) = 7)
    /\ (pc \in {"loop", "export"} =>
            \A k \in 2..Len(a4) :
                IF a4[k-1][1] + 408 + 388 > 2480
                THEN a4[k] = <<10, a4[k-1][2] + 501>>
                ELSE a4[k] = <<a4[k-1][1] + 408, a4[k-1][2]>>)
    /\ (pc \in {"loop", "export"} => \A k \in 1..Len(a4) : a4[k][2] + 476 <= 3508)
    /\ (pc = "export" => (i < copies <=> y + 476 > 3508))

C7_Witness ==
    /\ pc = "export"
    /\ copies = 40
    /\ Len(a4) = 40
    /\ a4[40] = <<1234, 3021>>

\* C8: consecutive copies are in row-major order, and a loop iteration never
\* moves the cursor to an earlier row or leftwards within a row.
C8_RowMajorOrder ==
    /\ [](\A k \in 1..(Len(a4) - 1) :
            \/ a4[k][2] < a4[k+1][2]
            \/ (a4[k][2] = a4[k+1][2] /\ a4[k][1] <= a4[k+1][1]))
    /\ [][pc = "loop" => (y' > y \/ (y' = y /\ x' >= x))]_vars

\* A copy placed at the start of a new row, left of and below the one before.
C8_Witness ==
    /\ pc = "loop"
    /\ \E k \in 1..(Len(a4) - 1) : a4[k+1][2] > a4[k][2] /\ a4[k+1][1] < a4[k][1]

\* C9: a composition run with the same copies as the first one this process
\* finished yields the same paste positions and the same count.
C9_SameInputsSamePlacements ==
    (LoopFinished /\ firstRun.valid /\ firstRun.copies = copies) =>
        (a4 = firstRun.a4 /\ placed = firstRun.placed)

\* A second request that repeated the first one's copies, over several rows.
C9_Witness ==
    /\ served = 2
    /\ pc = "done" /\ response.pdf
    /\ firstRun.valid /\ firstRun.copies = copies
    /\ stages = StageOrder
    /\ placed > 6

\* C10: an iteration that finds the row full while a further row fits pastes at
\* the start of that row; an iteration pastes only where the y left by the wrap
\* fits, and the loop stops early only where that y does not fit.
C10_WrapBeforeOverflow ==
    /\ [][(pc = "loop" /\ i < copies /\ x + paste_w > a4_w
              /\ y + 2 * paste_h + spacing <= a4_h)
            => (pc' = "loop" /\ placed' = placed + 1
                /\ a4' = Append(a4, <<margin_x, y + paste_h + spacing>>))]_vars
    /\ [][(pc = "loop" /\ a4' # a4) => y' + paste_h <= a4_h]_vars
    /\ [](StoppedEarly => y + paste_h > a4_h)

\* The row was full and a further row fitted: the copy went to its start.
C10_Witness ==
    /\ pc = "loop"
    /\ Len(a4) >= 3
    /\ a4[Len(a4) - 1][2] = a4[Len(a4) - 2][2]
    /\ a4[Len(a4)] = <<margin_x, a4[Len(a4) - 1][2] + paste_h + spacing>>
    /\ x = AdvanceX(margin_x)

====
